---- MODULE Spec2Model ----
(***************************************************************************)
(* The blackbody notebook (index.ipynb): the wavelength array lamda, the   *)
(* colour table temp_to_rgb, the functions planck and maxlamda, the        *)
(* plotting callback g and the IntSlider that drives it.                   *)
(*                                                                         *)
(* Numbers.  Python floats are modelled by binary floating-point numbers   *)
(* with a 30-bit significand, m * 2^e with 2^29 <= m < 2^30, truncating,   *)
(* with the exponent range of an IEEE double (overflow to inf at 2^1024,   *)
(* underflow to zero below 2^-1075).  All quantities of the notebook are   *)
(* non-negative, so the numbers carry no sign.  Wavelengths of lamda are   *)
(* kept as exact decimals, in units of 1e-9 m.                             *)
(***************************************************************************)
EXTENDS Integers, Sequences, FiniteSets, TLC

VARIABLES lamda, temp_to_rgb, slider, pending, T, pc, active, fig, out

vars == <<lamda, temp_to_rgb, slider, pending, T, pc, active, fig, out>>

-----------------------------------------------------------------------------
(* Floating-point numbers.                                                 *)

Two14 == 2^14
Two15 == 2^15
Two29 == 2^29
Two30 == 2^30

Zero == [k |-> "zero", m |-> 0, e |-> 0]
Inf == [k |-> "inf", m |-> 0, e |-> 0]
NaN == [k |-> "nan", m |-> 0, e |-> 0]

\* A finite number m * 2^e, 2^29 <= m < 2^30, or what it overflows/underflows to.
Fin(m, e) ==
  IF e > 994 THEN Inf
  ELSE IF e < -1104 THEN Zero
  ELSE [k |-> "fin", m |-> m, e |-> e]

RECURSIVE Norm(_, _)
Norm(m, e) ==
  IF m = 0 THEN Zero
  ELSE IF m >= Two30 THEN Norm(m \div 2, e + 1)
  ELSE IF m < Two15 THEN Norm(m * Two15, e - 15)
  ELSE IF m < Two29 THEN Norm(2 * m, e - 1)
  ELSE Fin(m, e)

\* float(n), n a natural number
FromInt(n) == Norm(n, 0)

\* 1.0
One == FromInt(1)

\* a * b
Mul(a, b) ==
  IF a.k = "fin" /\ b.k = "fin"
  THEN LET ah == a.m \div Two15
           al == a.m % Two15
           bh == b.m \div Two15
           bl == b.m % Two15
           mid == ah * bl + al * bh + ((al * bl) \div Two15)
           p == ah * bh + (mid \div Two15)
       IN IF p >= Two29 THEN Fin(p, a.e + b.e + 30)
          ELSE Fin(2 * p + ((mid % Two15) \div Two14), a.e + b.e + 29)
  ELSE IF a.k = "nan" \/ b.k = "nan" THEN NaN
  ELSE IF a.k = "zero" THEN (IF b.k = "inf" THEN NaN ELSE Zero)
  ELSE IF b.k = "zero" THEN (IF a.k = "inf" THEN NaN ELSE Zero)
  ELSE Inf

\* The 2n quotient bits of r / b after acc, r < b, two at each step.
RECURSIVE DivBits(_, _, _, _)
DivBits(r, b, n, acc) ==
  IF n = 0 THEN acc
  ELSE LET hi == 2 * r >= b
           r1 == IF hi THEN 2 * r - b ELSE 2 * r
       IN IF 2 * r1 >= b
          THEN DivBits(2 * r1 - b, b, n - 1, 4 * acc + (IF hi THEN 3 ELSE 1))
          ELSE DivBits(2 * r1, b, n - 1, 4 * acc + (IF hi THEN 2 ELSE 0))

\* a / b; a nonzero number over zero is inf (numpy warns and goes on).
Div(a, b) ==
  IF a.k = "fin" /\ b.k = "fin"
  THEN IF a.m >= b.m THEN Fin(DivBits(a.m - b.m, b.m, 15, 1) \div 2, a.e - b.e - 29)
       ELSE Fin(DivBits(a.m, b.m, 15, 0), a.e - b.e - 30)
  ELSE IF a.k = "nan" \/ b.k = "nan" THEN NaN
  ELSE IF a.k = "inf" THEN (IF b.k = "inf" THEN NaN ELSE Inf)
  ELSE IF b.k = "inf" THEN Zero
  ELSE IF b.k = "zero" THEN (IF a.k = "zero" THEN NaN ELSE Inf)
  ELSE Zero

RECURSIVE Shr(_, _)
Shr(m, n) == IF n <= 0 \/ m = 0 THEN m ELSE Shr(m \div 2, n - 1)

\* a - b, for a >= b
Sub(a, b) ==
  IF a.k = "nan" \/ b.k = "nan" THEN NaN
  ELSE IF a.k = "inf" THEN (IF b.k = "inf" THEN NaN ELSE Inf)
  ELSE IF b.k = "zero" THEN a
  ELSE Norm(a.m - Shr(b.m, a.e - b.e), a.e)

RECURSIVE Pow10(_)
Pow10(n) ==
  IF n = 0 THEN FromInt(1)
  ELSE IF n % 2 = 1 THEN Mul(FromInt(10), Pow10(n - 1))
  ELSE LET s == Pow10(n \div 2) IN Mul(s, s)

\* The float literal m e<e10>, as in 2.898e-3 = Dec(2898, -6).
Dec(m, e10) ==
  IF e10 >= 0 THEN Mul(FromInt(m), Pow10(e10)) ELSE Div(FromInt(m), Pow10(-e10))

\* a * b for fixed-point numbers with 29 fractional bits, a * b < 4.
MulQ(a, b) ==
  LET ah == a \div Two15
      al == a % Two15
      bh == b \div Two15
      bl == b % Two15
  IN 2 * ah * bh + ((ah * bl + al * bh + ((al * bl) \div Two15)) \div Two14)

Log2E == Dec(1442695041, -9)
\* ln 2 with 29 fractional bits
Ln2Q == Dec(693147181, -9).m \div 2

\* The order at which the series of exp is cut.
ExpTerms == 12

\* 1 + z/n * (1 + z/(n+1) * (...)), with 29 fractional bits: exp(z) for n = 1.
RECURSIVE Horner(_, _)
Horner(z, n) ==
  IF n > ExpTerms THEN Two29 ELSE Two29 + (MulQ(z, Horner(z, n + 1)) \div n)

\* np.exp(x), x >= 0: 2^kk * 2^f with kk + f = x * log2(e), 0 <= f < 1; inf
\* on overflow (numpy warns and goes on).
Exp(x) ==
  IF x.k = "nan" THEN NaN
  ELSE IF x.k = "inf" THEN Inf
  ELSE IF x.k = "zero" THEN One
  ELSE IF x.e + 29 >= 11 THEN Inf
  ELSE LET y == Mul(x, Log2E)
           s == -(y.e)
           kk == IF s >= 30 THEN 0 ELSE y.m \div (2^s)
           f == IF s >= 59 THEN 0
                ELSE IF s >= 30 THEN Shr(y.m, s - 29)
                ELSE (y.m % (2^s)) * (2^(29 - s))
       IN Fin(Horner(MulQ(f, Ln2Q), 1), kk - 29)

-----------------------------------------------------------------------------
(* The notebook's globals.                                                 *)

\* np.arange(start, stop, step): ceil((stop - start)/step) values from start,
\* stop excluded.
arange(start, stop, step) ==
  LET len == (stop - start + step - 1) \div step
  IN [i \in 1..len |-> start + (i - 1) * step]

\* lamda with the step of 1e-9 that the comment above it announces
LamdaStepOneNm == arange(10, 2000, 1)

\* lamda from 1e-9, where its author would have liked it to start
LamdaFrom1nm == arange(1, 2000, 5)

\* lamda = np.arange(1e-8, 2e-6, 5e-9), in units of 1e-9 m
LamdaAtLoad == arange(10, 2000, 5)

\* The floats 1e-9 and 1e9
Nano == Dec(1, -9)
Giga == Dec(1, 9)

\* The float of a wavelength held in units of 1e-9 m.
Metres(l) == Mul(FromInt(l), Nano)

\* scipy.constants: sc.Boltzmann, sc.h, sc.c
B == Dec(1380649, -29)
h == Dec(662607015, -42)
c == FromInt(299792458)

\* The rows of temp_to_rgb.data: one per temperature of the blackbody colour
\* table, 1000 K to 40000 K in steps of 100 K; Colour(t) stands for its rgb.
Colour(t) == <<"rgb", t>>
TableAtLoad == [i \in 1..391 |-> [Temperature |-> 1000 + 100 * (i - 1),
                                  rgb |-> Colour(1000 + 100 * (i - 1))]]

\* wav**5
Pow5(w) == LET w2 == Mul(w, w) IN Mul(Mul(w2, w2), w)

\* planck with wav**4 for wav**5
planckPow4(wav, t) ==
  LET numerator == Mul(Mul(FromInt(2), h), Mul(c, c))
      hc == Mul(h, c)
      tf == FromInt(t)
  IN [i \in DOMAIN wav |->
        LET w == wav[i]
            exponent == Exp(Div(hc, Mul(Mul(w, B), tf)))
            denominator == Mul(Mul(Mul(Mul(w, w), w), w), Sub(exponent, One))
        IN Div(numerator, denominator)]

\* planck(wav, T), wav an array: numpy applies it element by element.
planck(wav, t) ==
  LET numerator == Mul(Mul(FromInt(2), h), Mul(c, c))
      hc == Mul(h, c)
      tf == FromInt(t)
  IN [i \in DOMAIN wav |->
        LET w == wav[i]
            exponent == Exp(Div(hc, Mul(Mul(w, B), tf)))
            denominator == Mul(Pow5(w), Sub(exponent, One))
        IN Div(numerator, denominator)]

\* maxlamda without its factor 1e-3
maxlamdaNoMilli(t) == Div(Dec(2898, -3), FromInt(t))

\* maxlamda(T) = (2.898*1e-3)/T
maxlamda(t) == Div(Mul(Dec(2898, -3), Dec(1, -3)), FromInt(t))

\* A lookup that falls back on the row of the nearest temperature
locNearest(table, t) ==
  LET dist(i) == IF table[i].Temperature >= t THEN table[i].Temperature - t
                 ELSE t - table[i].Temperature
      best == CHOOSE i \in DOMAIN table : \A j \in DOMAIN table : dist(i) <= dist(j)
  IN <<table[best].rgb>>

\* temp_to_rgb.loc[temp_to_rgb["Temperature"] == T, "rgb"]
loc(table, t) ==
  LET rows == SelectSeq(table, LAMBDA r : r.Temperature = t)
  IN [i \in DOMAIN rows |-> rows[i].rgb]

-----------------------------------------------------------------------------
(* The slider and the callback.                                            *)

\* The slider with a step of 50
IntSliderStep50 == [min |-> 2100, max |-> 20000, value |-> 3000, step |-> 50]

\* widgets.IntSlider(min=2100, max=20000, value=3000, step=100)
IntSlider == [min |-> 2100, max |-> 20000, value |-> 3000, step |-> 100]

\* The positions of the slider's handle.
SliderValues ==
  {v \in IntSlider.min..IntSlider.max : (v - IntSlider.min) % IntSlider.step = 0}

\* A slider that does not keep its value between min and max
ClampNone(v) == v

\* The slider keeps its value between min and max.
Clamp(v) ==
  IF v < IntSlider.min THEN IntSlider.min
  ELSE IF v > IntSlider.max THEN IntSlider.max
  ELSE v

\* Change messages the kernel has not handled yet, at most.
MaxPending == 1

\* pyplot's current figure before anything is drawn on it.
NewFigure == [lines |-> <<>>, vlines |-> <<>>, spans |-> 0, notes |-> 0,
              patches |-> <<>>, legend |-> <<>>]

\* The state when the cell has run and the widget is displayed: displaying
\* interactive_plot calls g once, with the slider's value.
Init ==
  /\ lamda = LamdaAtLoad
  /\ temp_to_rgb = TableAtLoad
  /\ slider = IntSlider.value
  /\ pending = <<>>
  /\ T = IntSlider.value
  /\ pc = "g116"
  /\ active = 1
  /\ fig = NewFigure
  /\ out = [kind |-> "none"]

\* The user moves the handle d steps; the front end sends the new value.
Slide(d) ==
  LET v == Clamp(slider + d * IntSlider.step)
  IN /\ v # slider
     /\ Len(pending) < MaxPending
     /\ slider' = v
     /\ pending' = Append(pending, v)
     /\ UNCHANGED <<lamda, temp_to_rgb, T, pc, active, fig, out>>

SlideUp == Slide(1)

SlideDown == Slide(-1)

\* A kernel that handles a change message while g is running
DispatchAnyTime ==
  /\ pending # <<>>
  /\ T' = Head(pending)
  /\ pending' = Tail(pending)
  /\ pc' = "g116"
  /\ active' = active + 1
  /\ out' = [kind |-> "none"]
  /\ UNCHANGED <<lamda, temp_to_rgb, slider, fig>>

\* The kernel, idle, handles the next change message: the observer that
\* widgets.interactive registered clears the output area and calls g with
\* the new value.
Dispatch ==
  /\ pc = "idle"
  /\ pending # <<>>
  /\ T' = Head(pending)
  /\ pending' = Tail(pending)
  /\ pc' = "g116"
  /\ active' = active + 1
  /\ out' = [kind |-> "none"]
  /\ UNCHANGED <<lamda, temp_to_rgb, slider, fig>>

\* g, lines 116 to 148: the curve, the line at the peak, the colour bands
\* and the two labels, drawn on pyplot's current figure.
Plot ==
  /\ pc = "g116"
  /\ fig' = [fig EXCEPT
       !.lines = Append(@, [label |-> T,
                            x |-> [i \in DOMAIN lamda |-> Mul(Metres(lamda[i]), Giga)],
                            y |-> planck([i \in DOMAIN lamda |-> Metres(lamda[i])], T)]),
       !.vlines = Append(@, Mul(maxlamda(T), Giga)),
       !.spans = @ + 9,
       !.notes = @ + 2]
  /\ pc' = "g152"
  /\ UNCHANGED <<lamda, temp_to_rgb, slider, pending, T, active, out>>

\* A lookup that keeps the selected rows in temp_to_rgb itself
LookupNarrowsTable ==
  /\ pc = "g152"
  /\ temp_to_rgb' = SelectSeq(temp_to_rgb, LAMBDA r : r.Temperature = T)
  /\ IF temp_to_rgb' = <<>>
     THEN /\ pc' = "idle"
          /\ active' = active - 1
          /\ out' = [kind |-> "IndexError"]
          /\ UNCHANGED fig
     ELSE /\ pc' = "g159"
          /\ fig' = [fig EXCEPT !.patches = Append(@, temp_to_rgb'[1].rgb),
                                !.notes = @ + 1]
          /\ UNCHANGED <<active, out>>
  /\ UNCHANGED <<lamda, slider, pending, T>>

\* g, lines 152 to 156: the colour of T from the table, and its rectangle.
\* .iloc[0] of an empty selection raises IndexError, which ends g.
Lookup ==
  /\ pc = "g152"
  /\ LET colorval == loc(temp_to_rgb, T)
     IN IF colorval = <<>>
        THEN /\ pc' = "idle"
             /\ active' = active - 1
             /\ out' = [kind |-> "IndexError"]
             /\ UNCHANGED fig
        ELSE /\ pc' = "g159"
             /\ fig' = [fig EXCEPT !.patches = Append(@, colorval[1]),
                                   !.notes = @ + 1]
             /\ UNCHANGED <<active, out>>
  /\ UNCHANGED <<lamda, temp_to_rgb, slider, pending, T>>

\* A plt.show() that leaves the figure open
ShowKeepsFigure ==
  /\ pc = "g159"
  /\ out' = [kind |-> "plot",
             fig |-> [fig EXCEPT !.legend = [i \in DOMAIN fig.lines |-> fig.lines[i].label]]]
  /\ pc' = "idle"
  /\ active' = active - 1
  /\ UNCHANGED <<lamda, temp_to_rgb, slider, pending, T, fig>>

\* g, lines 159 to 161: the legend, then plt.show(), which renders the
\* current figure into the output and closes it.
Show ==
  /\ pc = "g159"
  /\ out' = [kind |-> "plot",
             fig |-> [fig EXCEPT !.legend = [i \in DOMAIN fig.lines |-> fig.lines[i].label]]]
  /\ fig' = NewFigure
  /\ pc' = "idle"
  /\ active' = active - 1
  /\ UNCHANGED <<lamda, temp_to_rgb, slider, pending, T>>

Next == SlideUp \/ SlideDown \/ Dispatch \/ Plot \/ Lookup \/ Show

Spec == Init /\ [][Next]_vars

-----------------------------------------------------------------------------
(* g called by hand, with any temperature, as from another cell.           *)

\* The temperatures g is called with: with a row in the table (3000, 20000)
\* and without (2150 lies between two rows, 900 and 50000 outside them).
CallTemps == {900, 2150, 3000, 20000, 50000}

\* Figures left undrawn by failed calls, at most.
MaxStale == 3

CallG(t) ==
  /\ pc = "idle"
  /\ Len(fig.lines) < MaxStale
  /\ T' = t
  /\ pc' = "g116"
  /\ active' = active + 1
  /\ out' = [kind |-> "none"]
  /\ UNCHANGED <<lamda, temp_to_rgb, slider, pending, fig>>

NextCall == (\E t \in CallTemps : CallG(t)) \/ Plot \/ Lookup \/ Show

SpecCall == Init /\ [][NextCall]_vars

-----------------------------------------------------------------------------
(* The properties.                                                         *)

\* a < b
Lt(a, b) ==
  IF a.k = "nan" \/ b.k = "nan" THEN FALSE
  ELSE IF a.k = "fin" /\ b.k = "fin" THEN a.e < b.e \/ (a.e = b.e /\ a.m < b.m)
  ELSE IF a.k = "zero" THEN b.k # "zero"
  ELSE a.k = "fin" /\ b.k = "inf"

\* a <= b
Le(a, b) == a.k # "nan" /\ b.k # "nan" /\ ~Lt(b, a)

\* C1: for every temperature the slider hands to g, the table has exactly
\* one row with that Temperature; the lookup of g does not fail, and the
\* one colour it draws is the rgb of that row.
C1_LookupFindsOneRow ==
  /\ Cardinality({i \in DOMAIN temp_to_rgb : temp_to_rgb[i].Temperature = T}) = 1
  /\ out.kind # "IndexError"
  /\ pc = "g159" =>
       /\ Len(fig.patches) = 1
       /\ \E i \in DOMAIN temp_to_rgb :
            temp_to_rgb[i].Temperature = T /\ temp_to_rgb[i].rgb = fig.patches[1]

C1_Witness == pc = "g159" /\ T = 3100 /\ fig.patches # <<>>

\* C2: the slider starts at 3000 and g is first called with 3000; ever
\* after, the temperature handed to g and the slider's value are integers
\* from 2100 to 20000 at a whole number of steps of 100 above 2100.
C2_TemperatureOnTheGrid ==
  /\ slider = 3000 /\ T = 3000
  /\ [](/\ T \in 2100..20000 /\ (T - 2100) % 100 = 0
        /\ slider \in 2100..20000 /\ (slider - 2100) % 100 = 0
        /\ \A i \in DOMAIN pending :
             pending[i] \in 2100..20000 /\ (pending[i] - 2100) % 100 = 0)

C2_Witness == pc = "g116" /\ T = 2100 /\ slider = 2100

\* What g draws for temperature t on a new figure, from lamda and
\* temp_to_rgb as they were loaded: a function of t alone.
gOutput(t) ==
  [kind |-> "plot",
   fig |-> [lines |-> <<[label |-> t,
                         x |-> [i \in DOMAIN LamdaAtLoad |-> Mul(Metres(LamdaAtLoad[i]), Giga)],
                         y |-> planck([i \in DOMAIN LamdaAtLoad |-> Metres(LamdaAtLoad[i])], t)]>>,
            vlines |-> <<Mul(maxlamda(t), Giga)>>,
            spans |-> 9,
            notes |-> 3,
            patches |-> <<loc(TableAtLoad, t)[1]>>,
            legend |-> <<t>>]]

\* C3: when g has run, what it has put out (curve, peak line, colour) is
\* what g draws for the current T on a new figure, whatever ran before: two
\* runs with the same T put out the same.
C3_OutputDependsOnTOnly == (pc = "idle" /\ out.kind = "plot") => out = gOutput(T)

C3_Witness == pc = "idle" /\ out.kind = "plot" /\ T = 2900 /\ pending = <<>>

\* C4: lamda and temp_to_rgb always hold the values they were loaded with.
C4_GlobalsNeverChange == lamda = LamdaAtLoad /\ temp_to_rgb = TableAtLoad

C4_Witness == pc = "idle" /\ out.kind = "plot" /\ T = 3200

C6_MissingRowRaises ==
  [][/\ (pc = "g152" /\ \A i \in DOMAIN temp_to_rgb : temp_to_rgb[i].Temperature # T) =>
          /\ pc' = "idle"
          /\ out' = [kind |-> "IndexError"]
          /\ fig'.patches = fig.patches
          /\ active' = 0
     /\ out'.kind = "IndexError" => pc' = "idle" /\ active' = 0 /\ T' = T
     /\ (out'.kind = "plot") =>
          \E i \in DOMAIN temp_to_rgb : temp_to_rgb[i].Temperature = T
    ]_vars

C6_Witness == out.kind = "IndexError" /\ T = 2150 /\ pc = "idle" /\ fig.patches = <<>>

AbsDiff(a, b) == IF Lt(a, b) THEN Sub(b, a) ELSE Sub(a, b)

\* One more than the number of samples below their successor: the place
\* of the maximum of a curve that rises, then falls.
Summit(y) == 1 + Cardinality({i \in 1..(Len(y) - 1) : Lt(y[i], y[i + 1])})

\* C8: every curve g draws rises strictly to one maximum and falls strictly
\* after it, and the sample of the maximum is within 5 nm of maxlamda(T).
C8_SinglePeakAtWien ==
  \A n \in DOMAIN fig.lines :
    LET y == fig.lines[n].y
        x == fig.lines[n].x
        k == Summit(y)
    IN /\ 1 < k /\ k < Len(y)
       /\ \A i \in 1..(k - 1) : Lt(y[i], y[i + 1])
       /\ \A i \in k..(Len(y) - 1) : Lt(y[i + 1], y[i])
       /\ Le(AbsDiff(x[k], Mul(maxlamda(fig.lines[n].label), Giga)), FromInt(5))

C8_Witness == pc = "g152" /\ T = 2400 /\ Len(fig.lines) = 1

\* C9: every value of every curve g draws is a finite number above 0: the
\* exponential has not overflowed (the value would be 0) and is above 1 (the
\* value would be inf).
C9_RadiancePositive ==
  \A n \in DOMAIN fig.lines :
    \A i \in DOMAIN fig.lines[n].y : fig.lines[n].y[i].k = "fin"

C9_Witness == pc = "g152" /\ T = 2100 /\ Len(fig.lines) = 1 /\ fig.lines[1].y[1].k = "fin"

\* C10: the line g draws at maxlamda(T) is not left of the first sample of
\* the curve (10 nm) and not right of its last sample.
C10_PeakLineOnTheCurve ==
  \A n \in DOMAIN fig.vlines :
    LET x == fig.lines[n].x
    IN /\ Le(x[1], fig.vlines[n])
       /\ Le(FromInt(10), fig.vlines[n])
       /\ Le(fig.vlines[n], x[Len(x)])

C10_Witness == pc = "g159" /\ T = 20000 /\ Len(fig.vlines) = 1

====
